---- MODULE Spec2Model ----
(***************************************************************************)
(* A model of package semver (src/semver.go): the Version value, its       *)
(* parser NewVersion, its renderer String, the two Equal forms and the     *)
(* flag helper CreateFlagAndParse together with the part of package flag   *)
(* and of the process (arguments, standard output, exit) that it touches.  *)
(*                                                                         *)
(* A Go string is a sequence of one-character strings.  A uint64 is a      *)
(* tuple of four 16-bit limbs, least significant first, so that the        *)
(* 64-bit width of the fields is kept and the conversions between a        *)
(* number and its decimal text are real computations.                      *)
(***************************************************************************)
EXTENDS Integers, Sequences, FiniteSets, TLC

VARIABLES
    pc,         \* "start", then what the caller has done; "main" / "exited" for the process
    in1, in2,   \* string arguments of the call
    vin,        \* Version argument of String
    res,        \* result of NewVersion: [v, err]
    str,        \* result of String
    eq,         \* result of Equal(in1, in2), "none" before the call
    parsed,     \* flag.CommandLine: Parse has been called (flag.Parsed())
    formal,     \* flag.CommandLine: the registered flags [name, usage, value]
    bools,      \* the bool variables allocated by flag.Bool, by address 1, 2, ...
    args,       \* os.Args[1:]
    stdout,     \* lines written to standard output
    exited,     \* <<>> while the process runs, <<status>> once it has ended
    ret,        \* what the last CreateFlagAndParse returned: <<err>>, <<>> if it did not return
    events,     \* the uses of package flag by the last CreateFlagAndParse, in order
    regs,       \* the names registered with package flag so far, in order
    calls       \* number of CreateFlagAndParse calls made

vars == <<pc, in1, in2, vin, res, str, eq, parsed, formal, bools, args,
          stdout, exited, ret, events, regs, calls>>

------------------------------------------------------------------------------
(* Bounds of the model *)

MaxLen == 6
MaxLenEq == 5
MaxLenFlag == 5
MaxSmall == 11
MaxArgs == 2
MaxCalls == 3

------------------------------------------------------------------------------
(* Strings *)

numerals == <<"0", "1", "2", "3", "4", "5", "6", "7", "8", "9">>

RECURSIVE StringsUpTo(_, _)
StringsUpTo(chars, n) ==
    IF n = 0 THEN {<<>>}
    ELSE LET shorter == StringsUpTo(chars, n - 1)
         IN  shorter \cup {Append(t, c) : t \in {u \in shorter : Len(u) = n - 1},
                                          c \in chars}

(* strings.ContainsRune(s, r) *)
ContainsRune(s, r) == \E i \in 1..Len(s) : s[i] = r

(* strings.IndexFunc(s, f) with the f of lines 167-169, which holds of the   *)
(* characters that are not in compare: the index (from 0) of the first such *)
(* character of s, or -1.                                                   *)
IndexFunc(s, compare) ==
    IF \E i \in 1..Len(s) : ~ContainsRune(compare, s[i])
    THEN (CHOOSE i \in 1..Len(s) :
              /\ ~ContainsRune(compare, s[i])
              /\ \A j \in 1..(i - 1) : ContainsRune(compare, s[j])) - 1
    ELSE -1

\* containsOnly with an explicit rejection of the empty string
containsOnlyNonEmpty(s, compare) == Len(s) > 0 /\ IndexFunc(s, compare) = -1

containsOnly(s, compare) == IndexFunc(s, compare) = -1

\* hasLeadingZeroes with the length test off by one, and looking at the last
\* character instead of the first
hasLeadingZeroesLong(s) == Len(s) > 2 /\ s[1] = "0"
hasLeadingZeroesLast(s) == Len(s) > 1 /\ s[Len(s)] = "0"

hasLeadingZeroes(s) == Len(s) > 1 /\ s[1] = "0"

(* strings.Index(s, sep) for a one-character sep, from 1; 0 if absent *)
Index(s, sep) ==
    IF \E i \in 1..Len(s) : s[i] = sep
    THEN CHOOSE i \in 1..Len(s) : s[i] = sep /\ \A j \in 1..(i - 1) : s[j] # sep
    ELSE 0

\* strings.Split in place of strings.SplitN: every separator splits
RECURSIVE SplitAll(_, _, _)
SplitAll(s, sep, n) ==
    IF Index(s, sep) = 0 THEN <<s>>
    ELSE LET i == Index(s, sep)
         IN  <<SubSeq(s, 1, i - 1)>> \o SplitAll(SubSeq(s, i + 1, Len(s)), sep, n)

(* strings.SplitN(s, sep, n) for n > 0: at most n parts, the last one the   *)
(* unsplit remainder.                                                       *)
RECURSIVE SplitN(_, _, _)
SplitN(s, sep, n) ==
    IF n = 1 \/ Index(s, sep) = 0 THEN <<s>>
    ELSE LET i == Index(s, sep)
         IN  <<SubSeq(s, 1, i - 1)>> \o SplitN(SubSeq(s, i + 1, Len(s)), sep, n - 1)

------------------------------------------------------------------------------
(* uint64 *)

LimbBase == 2^16
U64Zero == <<0, 0, 0, 0>>
U64Max == <<LimbBase - 1, LimbBase - 1, LimbBase - 1, LimbBase - 1>>
IsU64(u) == /\ DOMAIN u = 1..4
            /\ \A i \in 1..4 : u[i] \in 0..(LimbBase - 1)

(* u * 10 + d on 64 bits: the wrapped value and the carry out of bit 63 *)
MulAdd10(u, d) ==
    LET c1 == u[1] * 10 + d
        c2 == u[2] * 10 + (c1 \div LimbBase)
        c3 == u[3] * 10 + (c2 \div LimbBase)
        c4 == u[4] * 10 + (c3 \div LimbBase)
    IN  [val   |-> <<c1 % LimbBase, c2 % LimbBase, c3 % LimbBase, c4 % LimbBase>>,
         carry |-> c4 \div LimbBase]

(* u / 10 and u % 10 *)
DivMod10(u) ==
    LET c4 == u[4]
        c3 == (c4 % 10) * LimbBase + u[3]
        c2 == (c3 % 10) * LimbBase + u[2]
        c1 == (c2 % 10) * LimbBase + u[1]
    IN  [q |-> <<c1 \div 10, c2 \div 10, c3 \div 10, c4 \div 10>>, r |-> c1 % 10]

U64FromSmall(n) == <<n % LimbBase, n \div LimbBase, 0, 0>>

(* strconv.AppendUint(b, u, 10): the decimal digits of u, no leading zero,  *)
(* "0" for zero, appended to b.                                             *)
RECURSIVE FormatDigits(_)
FormatDigits(u) ==
    LET dm == DivMod10(u)
    IN  IF dm.q = U64Zero THEN <<numerals[dm.r + 1]>>
        ELSE Append(FormatDigits(dm.q), numerals[dm.r + 1])

AppendUint(b, u) == b \o FormatDigits(u)

(* strconv.ParseUint(s, 10, 64): [n, err] with err "nil", "syntax" (empty   *)
(* or a character that is no digit) or "range" (the value exceeds 2^64-1;   *)
(* the accumulator is checked before it can wrap).                          *)
DigitVal(c) == (CHOOSE i \in 1..Len(numerals) : numerals[i] = c) - 1

RECURSIVE ParseDigits(_, _, _)
ParseDigits(s, i, n) ==
    IF i > Len(s) THEN [n |-> n, err |-> "nil"]
    ELSE IF ~ContainsRune(numerals, s[i]) THEN [n |-> U64Zero, err |-> "syntax"]
    ELSE LET m == MulAdd10(n, DigitVal(s[i]))
         IN  IF m.carry # 0 THEN [n |-> U64Max, err |-> "range"]
             ELSE ParseDigits(s, i + 1, m.val)

ParseUint(s) ==
    IF Len(s) = 0 THEN [n |-> U64Zero, err |-> "syntax"]
    ELSE ParseDigits(s, 1, U64Zero)

------------------------------------------------------------------------------
(* Version, String, Equal, NewVersion *)

Version(major, minor, patch) == [Major |-> major, Minor |-> minor, Patch |-> patch]

\* String with Minor and Patch written in the wrong order
StringSwapped(v) ==
    AppendUint(Append(AppendUint(Append(AppendUint(<<>>, v.Major), "."), v.Patch), "."),
               v.Minor)

String(v) ==
    LET b1 == AppendUint(<<>>, v.Major)
        b2 == Append(b1, ".")
        b3 == AppendUint(b2, v.Minor)
        b4 == Append(b3, ".")
        b5 == AppendUint(b4, v.Patch)
    IN  b5

\* Version.Equal without the comparison of Patch
VersionEqualNoPatch(v, v2) ==
    IF v.Major # v2.Major THEN FALSE
    ELSE IF v.Minor # v2.Minor THEN FALSE
    ELSE TRUE

VersionEqual(v, v2) ==
    IF v.Major # v2.Major THEN FALSE
    ELSE IF v.Minor # v2.Minor THEN FALSE
    ELSE IF v.Patch # v2.Patch THEN FALSE
    ELSE TRUE

(* An error value: kind, the field its message names ("" if none) and the   *)
(* text its message quotes.  ErrNil is Go's nil error.                      *)
Err(kind, field, text) == [kind |-> kind, field |-> field, text |-> text]
ErrNil == Err("nil", "", <<>>)
NumError(e, text) == Err(IF e = "syntax" THEN "ParseUintSyntax" ELSE "ParseUintRange",
                         "", text)

(* The pair NewVersion returns: v is <<>> for the nil pointer, else <<Version>> *)
Fail(e) == [v |-> <<>>, err |-> e]
Ok(v) == [v |-> <<v>>, err |-> ErrNil]

NewVersion(s) ==
    IF Len(s) = 0 THEN Fail(Err("EmptyInput", "", <<>>))
    ELSE LET parts == SplitN(s, ".", 3) IN
    IF Len(parts) # 3 THEN Fail(Err("WrongFieldCount", "", <<>>))
    \* Major
    ELSE IF ~containsOnly(parts[1], numerals)
         THEN Fail(Err("InvalidCharacters", "major", parts[1]))
    ELSE IF hasLeadingZeroes(parts[1])
         THEN Fail(Err("LeadingZero", "major", parts[1]))
    ELSE LET major == ParseUint(parts[1]) IN
    IF major.err # "nil" THEN Fail(NumError(major.err, parts[1]))
    \* Minor
    ELSE IF ~containsOnly(parts[2], numerals)
         THEN Fail(Err("InvalidCharacters", "minor", parts[2]))
    ELSE IF hasLeadingZeroes(parts[2])
         THEN Fail(Err("LeadingZero", "minor", parts[2]))
    ELSE LET minor == ParseUint(parts[2]) IN
    IF minor.err # "nil" THEN Fail(NumError(minor.err, parts[2]))
    \* Patch
    ELSE IF ~containsOnly(parts[3], numerals)
         THEN Fail(Err("InvalidCharacters", "patch", parts[3]))
    ELSE IF hasLeadingZeroes(parts[3])
         THEN Fail(Err("LeadingZero", "patch", parts[3]))
    ELSE LET patch == ParseUint(parts[3]) IN
    IF patch.err # "nil" THEN Fail(NumError(patch.err, parts[3]))
    ELSE Ok(Version(major.n, minor.n, patch.n))

(* Equal(s1, s2): "true" or "false"; "panic" would be v.Equal(v2) reading    *)
(* through a nil pointer.                                                   *)
Equal(s1, s2) ==
    LET r1 == NewVersion(s1) IN
    IF r1.err # ErrNil THEN "false"
    ELSE LET r2 == NewVersion(s2) IN
    IF r2.err # ErrNil THEN "false"
    ELSE IF r1.v = <<>> \/ r2.v = <<>> THEN "panic"
    ELSE IF VersionEqual(r1.v[1], r2.v[1]) THEN "true" ELSE "false"

------------------------------------------------------------------------------
(* What the specification says of a version string, stated without the      *)
(* parser: arbitrary-precision decimal values (any number of 16-bit limbs,  *)
(* least significant first, no leading zero limb).                          *)

RECURSIVE BigMulAdd10(_, _)
BigMulAdd10(n, d) ==
    IF Len(n) = 0 THEN IF d = 0 THEN <<>> ELSE <<d>>
    ELSE LET c == n[1] * 10 + d
         IN  <<c % LimbBase>> \o BigMulAdd10(Tail(n), c \div LimbBase)

RECURSIVE StripZeroLimbs(_)
StripZeroLimbs(n) ==
    IF Len(n) > 0 /\ n[Len(n)] = 0 THEN StripZeroLimbs(SubSeq(n, 1, Len(n) - 1)) ELSE n

RECURSIVE DecimalValue(_)
DecimalValue(t) ==
    IF Len(t) = 0 THEN <<>>
    ELSE StripZeroLimbs(BigMulAdd10(DecimalValue(SubSeq(t, 1, Len(t) - 1)),
                                    DigitVal(t[Len(t)])))

BigOfU64(u) == StripZeroLimbs(u)
FitsU64(n) == Len(n) <= 4

IsDigit(c) == c \in {"0", "1", "2", "3", "4", "5", "6", "7", "8", "9"}
DotPositions(s) == {i \in 1..Len(s) : s[i] = "."}
FirstDot(s) == CHOOSE i \in DotPositions(s) : \A j \in DotPositions(s) : i <= j
SecondDot(s) ==
    CHOOSE i \in DotPositions(s) \ {FirstDot(s)} :
        \A j \in DotPositions(s) \ {FirstDot(s)} : i <= j
(* For s with at least two dots: the text before the first dot, between the *)
(* first and the second, and all that follows the second.                   *)
PartOf(s, k) ==
    CASE k = 1 -> SubSeq(s, 1, FirstDot(s) - 1)
      [] k = 2 -> SubSeq(s, FirstDot(s) + 1, SecondDot(s) - 1)
      [] k = 3 -> SubSeq(s, SecondDot(s) + 1, Len(s))
FieldName(k) == <<"major", "minor", "patch">>[k]
WellFormedField(t) ==
    /\ Len(t) > 0
    /\ \A i \in 1..Len(t) : IsDigit(t[i])
    /\ (t[1] = "0" => Len(t) = 1)
    /\ FitsU64(DecimalValue(t))
WellFormed(s) ==
    /\ Cardinality(DotPositions(s)) = 2
    /\ \A k \in 1..3 : WellFormedField(PartOf(s, k))

------------------------------------------------------------------------------
(* Inputs *)

Digits(t) == [i \in DOMAIN t |-> numerals[t[i] + 1]]

\* 2^64-1 = 18446744073709551615 and its neighbours, as decimal text
BoundaryTexts ==
    { Digits(<<1,8,4,4,6,7,4,4,0,7,3,7,0,9,5,5,1,6,1,5>>),    \* 2^64-1
      Digits(<<1,8,4,4,6,7,4,4,0,7,3,7,0,9,5,5,1,6,1,4>>),    \* 2^64-2
      Digits(<<1,8,4,4,6,7,4,4,0,7,3,7,0,9,5,5,1,6,1,6>>),    \* 2^64
      Digits(<<1,8,4,4,6,7,4,4,0,7,3,7,0,9,5,5,1,6,2,0>>),    \* 2^64+4
      Digits(<<1,8,4,4,6,7,4,4,0,7,3,7,0,9,5,5,1,6,1>>),      \* 19 digits
      Digits(<<9,9,9,9,9,9,9,9,9,9,9,9,9,9,9,9,9,9,9>>),      \* 10^19-1
      Digits(<<1,0,0,0,0,0,0,0,0,0,0,0,0,0,0,0,0,0,0,0>>),    \* 10^19
      Digits(<<9,9,9,9,9,9,9,9,9,9,9,9,9,9,9,9,9,9,9,9>>),    \* 10^20-1
      Digits(<<3,6,8,9,3,4,8,8,1,4,7,4,1,9,1,0,3,2,3,2>>),    \* 2^65
      Digits(<<1,8,4,4,6,7,4,4,0,7,3,7,0,9,5,5,1,6,1,5,0>>),  \* 21 digits
      Digits(<<0,1,8,4,4,6,7,4,4,0,7,3,7,0,9,5,5,1,6,1,5>>),  \* leading zero
      Digits(<<4,2,9,4,9,6,7,2,9,6>>),                        \* 2^32
      Digits(<<6,5,5,3,6>>) }                                 \* 2^16

Dotted(a, b, c) == a \o <<".">> \o b \o <<".">> \o c

LongInputs ==
    UNION { { Dotted(t, <<"7">>, <<"8">>), Dotted(<<"7">>, t, <<"8">>),
              Dotted(<<"7">>, <<"8">>, t), Dotted(t, t, t),
              t \o <<".">> \o t, t } : t \in BoundaryTexts }

\* the inputs the specification and the package documentation name
ExampleInputs ==
    { <<"0", ".", "0", ".", "0">>, <<"1", ".", "2", ".", "3">>,
      <<"1", ".", "2", ".", "4">>, <<"1", ".", "2">>,
      <<"1", ".", "2", ".", "3", ".", "4">>, <<"1", ".", "0", "2", ".", "3">>,
      <<"0", "1", ".", "0", ".", "0">>, <<"-", "1", ".", "0", ".", "0">>,
      <<"1", "0", ".", "2", "0", ".", "3", "0">>, <<"b", "a", "d">>,
      <<"1", ".", ".", "3">>, <<".", "1", ".", "2">>, <<"1", ".", "2", ".">>,
      <<"v", "1", ".", "2", ".", "3">>, <<>> }

ParseChars == {"0", "1", "9", ".", "-"}
ParseInputs == StringsUpTo(ParseChars, MaxLen) \cup LongInputs \cup ExampleInputs

EqChars == {"0", "1", "."}
EqInputs ==
    {s \in StringsUpTo(EqChars, MaxLenEq) : Cardinality(DotPositions(s)) = 2}
    \cup ExampleInputs
    \cup {Dotted(t, <<"0">>, <<"1">>) : t \in BoundaryTexts}

U64Samples ==
    {U64FromSmall(n) : n \in 0..MaxSmall}
    \cup {<<LimbBase - 1 - n, LimbBase - 1, LimbBase - 1, LimbBase - 1>> : n \in 0..MaxSmall}
    \cup { <<LimbBase - 1, 0, 0, 0>>, <<0, 1, 0, 0>>,
           <<LimbBase - 1, LimbBase - 1, 0, 0>>, <<0, 0, 1, 0>>,
           <<LimbBase - 1, LimbBase - 1, LimbBase - 1, 0>>, <<0, 0, 0, 1>>,
           <<0, 0, 0, LimbBase \div 2>>,
           <<0, 35304, 8964, 35527>> }       \* 10^19
VersionInputs ==
    {Version(a, b, c) : a \in U64Samples, b \in U64Samples, c \in U64Samples}

NoVersion == Version(U64Zero, U64Zero, U64Zero)
NoResult == [v |-> <<>>, err |-> Err("none", "", <<>>)]

FlagIdle ==
    /\ parsed = FALSE /\ formal = {} /\ bools = <<>> /\ args = <<>>
    /\ stdout = <<>> /\ exited = <<>> /\ ret = <<>> /\ events = <<>>
    /\ regs = <<>> /\ calls = 0
flagVars == <<parsed, formal, bools, args, stdout, exited, ret, events, regs, calls>>

------------------------------------------------------------------------------
(* A caller of NewVersion(in1), String on what it returned, and            *)
(* Equal(in1, in2)                                                          *)

InitParse ==
    /\ pc = "start"
    /\ in1 \in ParseInputs
    /\ in2 = <<>> /\ vin = NoVersion /\ res = NoResult /\ str = <<>> /\ eq = "none"
    /\ FlagIdle

InitEqual ==
    /\ pc = "start"
    /\ in1 \in EqInputs /\ in2 \in EqInputs
    /\ vin = NoVersion /\ res = NoResult /\ str = <<>> /\ eq = "none"
    /\ FlagIdle

CallNewVersion ==
    /\ pc = "start"
    /\ res' = NewVersion(in1)
    /\ pc' = "parsed"
    /\ UNCHANGED <<in1, in2, vin, str, eq>>
    /\ UNCHANGED flagVars

CallString ==
    /\ pc = "parsed"
    /\ res.err = ErrNil
    /\ str' = String(res.v[1])
    /\ pc' = "rendered"
    /\ UNCHANGED <<in1, in2, vin, res, eq>>
    /\ UNCHANGED flagVars

CallEqual ==
    /\ pc = "start"
    /\ eq' = Equal(in1, in2)
    /\ pc' = "compared"
    /\ UNCHANGED <<in1, in2, vin, res, str>>
    /\ UNCHANGED flagVars

NextParse == CallNewVersion \/ CallString
SpecParse == InitParse /\ [][NextParse]_vars

NextEqual == CallEqual \/ CallNewVersion \/ CallString
SpecEqual == InitEqual /\ [][NextEqual]_vars

------------------------------------------------------------------------------
(* A caller of v.String() and of NewVersion on the text it returned *)

InitRound ==
    /\ pc = "start"
    /\ vin \in VersionInputs
    /\ in1 = <<>> /\ in2 = <<>> /\ res = NoResult /\ str = <<>> /\ eq = "none"
    /\ FlagIdle

RoundString ==
    /\ pc = "start"
    /\ str' = String(vin)
    /\ pc' = "rendered"
    /\ UNCHANGED <<in1, in2, vin, res, eq>>
    /\ UNCHANGED flagVars

RoundNewVersion ==
    /\ pc = "rendered"
    /\ res' = NewVersion(str)
    /\ pc' = "parsed"
    /\ UNCHANGED <<in1, in2, vin, str, eq>>
    /\ UNCHANGED flagVars

NextRound == RoundString \/ RoundNewVersion
SpecRound == InitRound /\ [][NextRound]_vars

------------------------------------------------------------------------------
(* Package flag's default FlagSet and the process, as CreateFlagAndParse    *)
(* uses them.  P is the process state, a record of the variables above.     *)

Proc == [parsed |-> parsed, formal |-> formal, bools |-> bools, args |-> args,
         stdout |-> stdout, exited |-> exited, events |-> <<>>, regs |-> regs]

Defined(P) == {f.name : f \in P.formal}

\* an entry of events: the operation, the flag it names, and the names
\* registered and the value of flag.Parsed() when it ran
Log(P, op, name) ==
    [P EXCEPT !.events = Append(@, [op |-> op, name |-> name,
                                    defined |-> Defined(P), parsed |-> P.parsed])]

(* os.Exit(code); a panic ends the process with status 2 *)
Exit(P, code) == [P EXCEPT !.exited = <<code>>]
(* fmt.Println(v) *)
Println(P, text) == [P EXCEPT !.stdout = Append(@, text \o <<"\n">>)]

(* flag.Var: panics when name is registered already *)
FlagVar(P, ptr, name, usage) ==
    LET P1 == [P EXCEPT !.regs = Append(@, name)]
    IN  IF name \in Defined(P) THEN Exit(P1, 2)
        ELSE [P1 EXCEPT !.formal = @ \cup {[name |-> name, usage |-> usage, value |-> ptr]}]

(* flag.Bool(name, value, usage): a new bool, registered under name *)
FlagBool(P, name, value, usage) ==
    LET ptr == Len(P.bools) + 1
        P1 == [P EXCEPT !.bools = Append(@, value)]
    IN  [P |-> FlagVar(Log(P1, "Bool", name), ptr, name, usage), ptr |-> ptr]

(* flag.BoolVar(p, name, value, usage): the bool at p, registered under name *)
FlagBoolVar(P, ptr, name, value, usage) ==
    LET P1 == [P EXCEPT !.bools[ptr] = value]
    IN  FlagVar(Log(P1, "BoolVar", name), ptr, name, usage)

(* flag.Parse(): marks the set parsed and sets every boolean flag the       *)
(* command line names; a flag that is not registered ends the process with  *)
(* status 2 (flag.ExitOnError).                                             *)
RECURSIVE parseArgs(_, _)
parseArgs(P, i) ==
    IF i > Len(P.args) THEN P
    ELSE IF P.args[i].name \notin Defined(P) THEN Exit(P, 2)
    ELSE LET f == CHOOSE f \in P.formal : f.name = P.args[i].name
         IN  parseArgs([P EXCEPT !.bools[f.value] = TRUE], i + 1)

FlagParse(P) == parseArgs([Log(P, "Parse", "") EXCEPT !.parsed = TRUE], 1)

\* CreateFlag with a bool of its own for the shorthand
ShorthandOwnBool(b, usage) ==
    IF b.P.exited # <<>> THEN b
    ELSE [P |-> FlagBool(b.P, "v", FALSE, usage).P, ptr |-> b.ptr]

(* lines 60-63: the shorthand "v" is registered on the bool b.ptr that      *)
(* flag.Bool returned, and that pointer is the result                       *)
Shorthand(b, usage) ==
    IF b.P.exited # <<>> THEN b
    ELSE [P |-> FlagBoolVar(b.P, b.ptr, "v", FALSE, usage), ptr |-> b.ptr]

(* lines 57-63, given versionUsage *)
CreateFlagWithUsage(P, versionUsage) ==
    Shorthand(FlagBool(P, "version", FALSE, versionUsage),
              versionUsage \o <<" (shorthand)">>)

(* v.CreateFlag(): [P, ptr], ptr being versionPtr *)
CreateFlag(P, v) ==
    CreateFlagWithUsage(P, <<"Prints current version: v. ">> \o String(v))

ErrAlreadyParsed == Err("AlreadyParsed", "", <<>>)
(* how a call ends: it returns e, or the process ended inside it *)
Return(P, e) == [P |-> P, ret |-> <<e>>]
NoReturn(P) == [P |-> P, ret |-> <<>>]

(* lines 86-91 *)
Report(P, versionPtr, v) ==
    IF P.bools[versionPtr] THEN NoReturn(Exit(Println(P, String(v)), 0))
    ELSE Return(P, ErrNil)

(* lines 86-91, once flag.Parse() has left P *)
AfterParse(P, versionPtr, v) ==
    IF P.exited # <<>> THEN NoReturn(P)
    ELSE Report(Log(P, "*versionPtr", ""), versionPtr, v)

(* lines 84-91, once v.CreateFlag() has returned c *)
ParseAndReport(c, v) ==
    IF c.P.exited # <<>> THEN NoReturn(c.P)
    ELSE AfterParse(FlagParse(c.P), c.ptr, v)

\* lines 80-91 with flag.Parse() called before v.CreateFlag()
ReportAfterCreate(c, v) ==
    IF c.P.exited # <<>> THEN NoReturn(c.P)
    ELSE Report(Log(c.P, "*versionPtr", ""), c.ptr, v)
ParseThenCreate(P, v) ==
    IF P.exited # <<>> THEN NoReturn(P)
    ELSE ReportAfterCreate(CreateFlag(P, v), v)
WithVersionParseFirst(P, r) ==
    IF r.err # ErrNil THEN Return(P, r.err)
    ELSE ParseThenCreate(FlagParse(P), r.v[1])

(* lines 76-91, once NewVersion has returned r *)
WithVersion(P, r) ==
    IF r.err # ErrNil THEN Return(P, r.err)
    ELSE ParseAndReport(CreateFlag(P, r.v[1]), r.v[1])

\* lines 70-91 with flag.Parsed() looked at only after NewVersion succeeded
LateCheck(P, r) ==
    IF r.err # ErrNil THEN Return(P, r.err)
    ELSE IF P.parsed THEN Return(P, ErrAlreadyParsed)
    ELSE ParseAndReport(CreateFlag(P, r.v[1]), r.v[1])
CheckedLate(P, s) == LateCheck(Log(P, "Parsed", ""), NewVersion(s))

\* lines 70-91 with flag.Parse() called before s is validated
EagerParsed(P, r) ==
    IF P.exited # <<>> THEN NoReturn(P)
    ELSE IF r.err # ErrNil THEN Return(P, r.err)
    ELSE ReportAfterCreate(CreateFlag(P, r.v[1]), r.v[1])
CheckedEagerParse(P, s) ==
    IF P.parsed THEN Return(P, ErrAlreadyParsed)
    ELSE EagerParsed(FlagParse(P), NewVersion(s))

(* lines 70-91, once flag.Parsed() has been read in P *)
Checked(P, s) ==
    IF P.parsed THEN Return(P, ErrAlreadyParsed)
    ELSE WithVersion(P, NewVersion(s))

(* CreateFlagAndParse(s): the process state it leaves and what it returns   *)
CreateFlagAndParse(P, s) == Checked(Log(P, "Parsed", ""), s)

Token(dashes, name) == [dashes |-> dashes, name |-> name]
ArgTokens == {Token(1, "version"), Token(2, "version"), Token(1, "v")}
ArgLines == StringsUpTo(ArgTokens, MaxArgs)

FlagChars == {"1", "."}
FlagInputs ==
    {s \in StringsUpTo(FlagChars, MaxLenFlag) : Cardinality(DotPositions(s)) = 2}
    \cup ExampleInputs

InitFlag ==
    /\ pc = "main"
    /\ args \in ArgLines
    /\ in1 = <<>> /\ in2 = <<>> /\ vin = NoVersion /\ res = NoResult
    /\ str = <<>> /\ eq = "none"
    /\ parsed = FALSE /\ formal = {} /\ bools = <<>>
    /\ stdout = <<>> /\ exited = <<>> /\ ret = <<>> /\ events = <<>>
    /\ regs = <<>> /\ calls = 0

Become(P) ==
    /\ parsed' = P.parsed /\ formal' = P.formal /\ bools' = P.bools
    /\ stdout' = P.stdout /\ exited' = P.exited /\ regs' = P.regs
    /\ pc' = IF P.exited = <<>> THEN "main" ELSE "exited"
    /\ UNCHANGED args

Called(out) ==
    /\ ret' = out.ret
    /\ events' = out.P.events
    /\ Become(out.P)

(* the program calls CreateFlagAndParse(s) *)
CallCreateFlagAndParse ==
    /\ pc = "main"
    /\ calls < MaxCalls
    /\ \E s \in FlagInputs :
          /\ in1' = s
          /\ Called(CreateFlagAndParse(Proc, s))
    /\ calls' = calls + 1
    /\ UNCHANGED <<in2, vin, res, str, eq>>

(* the program calls flag.Parse() itself *)
CallFlagParse ==
    /\ pc = "main"
    /\ ~parsed
    /\ Become(FlagParse(Proc))
    /\ UNCHANGED <<in1, in2, vin, res, str, eq, ret, events, calls>>

NextFlag == CallCreateFlagAndParse \/ CallFlagParse
SpecFlag == InitFlag /\ [][NextFlag]_vars

------------------------------------------------------------------------------
(* Properties of NewVersion, String and Equal *)

\* C1: round trip.  For every Version v with fields in 0..2^64-1,
\* NewVersion(v.String()) succeeds and returns a Version with v's three fields.
C1_RoundTrip ==
    pc = "parsed" =>
        /\ res.err = ErrNil
        /\ Len(res.v) = 1
        /\ res.v[1].Major = vin.Major
        /\ res.v[1].Minor = vin.Minor
        /\ res.v[1].Patch = vin.Patch
C1_Witness ==
    /\ pc = "parsed" /\ res.err = ErrNil
    /\ vin.Major = U64Max /\ vin.Minor = U64Zero /\ vin.Patch = U64FromSmall(10)
    /\ res.v = <<vin>>

\* C2: NewVersion(s) succeeds exactly when s is three fields separated by two
\* dots, each a non-empty digit string with no leading zero (but "0" itself)
\* and of value at most 2^64-1; on success the fields are the decimal values
\* of the three texts; otherwise an error and the nil Version are returned.
C2_ParseContract ==
    pc = "parsed" =>
        /\ (res.err = ErrNil) <=> WellFormed(in1)
        /\ res.err = ErrNil =>
              /\ Len(res.v) = 1
              /\ IsU64(res.v[1].Major) /\ IsU64(res.v[1].Minor) /\ IsU64(res.v[1].Patch)
              /\ BigOfU64(res.v[1].Major) = DecimalValue(PartOf(in1, 1))
              /\ BigOfU64(res.v[1].Minor) = DecimalValue(PartOf(in1, 2))
              /\ BigOfU64(res.v[1].Patch) = DecimalValue(PartOf(in1, 3))
        /\ res.err # ErrNil => res.v = <<>> /\ res.err.kind # "none"
C2_Witness ==
    /\ pc = "parsed" /\ res.err = ErrNil
    /\ Len(in1) = 24 /\ res.v[1].Major = U64Max
C2_WitnessRange ==
    /\ pc = "parsed" /\ res.err.kind = "ParseUintRange" /\ Len(in1) = 24

\* C3 as claimed: an input with at least two dots whose first, second or
\* third part is empty, every earlier part being a valid field, fails with
\* InvalidCharacters naming that field.
C3_EmptyPartCase(k) ==
    /\ pc = "parsed"
    /\ Cardinality(DotPositions(in1)) >= 2
    /\ PartOf(in1, k) = <<>>
    /\ \A j \in 1..(k - 1) : WellFormedField(PartOf(in1, j))
C3_EmptyPartIsInvalidCharacters ==
    \A k \in 1..3 :
        C3_EmptyPartCase(k) => res.err = Err("InvalidCharacters", FieldName(k), <<>>)
\* C3 as amended: such an input fails, with no Version, and the error is the
\* syntax error of strconv.ParseUint on the empty text: the empty part passes
\* the digit check and the leading-zero check.
C3_EmptyPartIsParseUintSyntax ==
    \A k \in 1..3 :
        C3_EmptyPartCase(k) =>
            /\ res.v = <<>>
            /\ res.err = Err("ParseUintSyntax", "", <<>>)
            /\ containsOnly(PartOf(in1, k), numerals)
            /\ ~hasLeadingZeroes(PartOf(in1, k))
C3_Witness ==
    /\ C3_EmptyPartCase(2)
    /\ PartOf(in1, 1) = <<"1">> /\ PartOf(in1, 3) = <<"9">>
    /\ res.err.kind = "ParseUintSyntax"

\* C4: a non-empty input fails with WrongFieldCount exactly when it has fewer
\* than two dots; with three dots or more all that follows the second dot is
\* the patch part, and when major and minor are valid the call fails with
\* InvalidCharacters on the patch field, quoting that part.
C4_FieldCount ==
    (pc = "parsed" /\ Len(in1) > 0) =>
        /\ (res.err.kind = "WrongFieldCount") <=> (Cardinality(DotPositions(in1)) < 2)
        /\ ( /\ Cardinality(DotPositions(in1)) >= 3
              /\ WellFormedField(PartOf(in1, 1))
              /\ WellFormedField(PartOf(in1, 2)) )
           => res.err = Err("InvalidCharacters", "patch", PartOf(in1, 3))
C4_Witness ==
    /\ pc = "parsed"
    /\ in1 = <<"1", ".", "2", ".", "3", ".", "4">>
    /\ res.err = Err("InvalidCharacters", "patch", <<"3", ".", "4">>)

\* C5: Equal(s1, s2) is true exactly when NewVersion(s1) and NewVersion(s2)
\* both succeed with pairwise equal Major, Minor and Patch; it is false when
\* either fails, and it never panics.
C5_EqualStrings ==
    pc = "compared" =>
        LET r1 == NewVersion(in1)
            r2 == NewVersion(in2)
            both == r1.err = ErrNil /\ r2.err = ErrNil
        IN  /\ eq \in {"true", "false"}
            /\ (eq = "true") <=>
                  /\ both
                  /\ r1.v[1].Major = r2.v[1].Major
                  /\ r1.v[1].Minor = r2.v[1].Minor
                  /\ r1.v[1].Patch = r2.v[1].Patch
            /\ ~both => eq = "false"
C5_Witness ==
    /\ pc = "compared" /\ eq = "false"
    /\ in1 = <<"1", ".", "2", ".", "3">> /\ in2 = <<"1", ".", "2", ".", "4">>
C5_WitnessTrue ==
    /\ pc = "compared" /\ eq = "true"
    /\ in1 = <<"1", "0", ".", "2", "0", ".", "3", "0">> /\ in2 = in1

\* C9: canonical form.  For every s that NewVersion accepts,
\* NewVersion(s).String() is s, character for character; and Equal(s1, s2)
\* is true exactly when s1 = s2 and s1 is accepted.
C9_Canonical ==
    /\ pc = "rendered" => str = in1
    /\ pc = "compared" => ((eq = "true") <=> (in1 = in2 /\ WellFormed(in1)))
C9_Witness ==
    /\ pc = "rendered"
    /\ in1 = <<"1", "0", ".", "2", "0", ".", "3", "0">>
    /\ str = in1

------------------------------------------------------------------------------
(* Properties of CreateFlagAndParse *)

IsCall == calls' = calls + 1
Supplied == \E i \in 1..Len(args) : args[i].name \in {"version", "v"}
Count(seq, x) == Cardinality({i \in 1..Len(seq) : seq[i] = x})
Ops(op) == {i \in 1..Len(events) : events[i].op = op}
OpsOn(op, name) == {i \in Ops(op) : events[i].name = name}

\* C6: every call made while the flag set is parsed returns AlreadyParsed,
\* whatever its string, and registers nothing; a call that returns nil leaves
\* the flag set parsed and it is never unparsed again, so every later call
\* returns AlreadyParsed; "version" and "v" are registered at most once.
C6_AlreadyParsed ==
    [][ /\ (IsCall /\ parsed) =>
              /\ ret' = <<ErrAlreadyParsed>>
              /\ formal' = formal /\ regs' = regs /\ bools' = bools
        /\ (IsCall /\ ret' = <<ErrNil>>) => parsed'
        /\ parsed => parsed'
        /\ Count(regs', "version") <= 1 /\ Count(regs', "v") <= 1 ]_vars
C6_Witness ==
    /\ calls >= 2 /\ ret = <<ErrAlreadyParsed>>
    /\ in1 = <<"1", ".", "2", ".", "3">>
    /\ regs = <<"version", "v">> /\ Defined(Proc) = {"version", "v"}

C7_WitnessNotSupplied ==
    /\ calls = 1 /\ args = <<>> /\ WellFormed(in1)
    /\ stdout = <<>> /\ exited = <<>> /\ ret = <<ErrNil>> /\ parsed

\* C8: in a call that reaches the registration, "version" is registered, then
\* "v", then flag.Parse() is called exactly once, with both flags registered,
\* then the flag's value is read, the flag set being parsed; the value is
\* never read before flag.Parse() and flag.Parse() never before both
\* registrations.
C8_Order ==
    /\ Cardinality(Ops("Parse")) <= 1
    /\ \A i \in Ops("Parse") :
          /\ {"version", "v"} \subseteq events[i].defined
          /\ \E j \in OpsOn("Bool", "version") : \E k \in OpsOn("BoolVar", "v") :
                j < k /\ k < i
    /\ \A i \in Ops("*versionPtr") :
          /\ events[i].parsed
          /\ \E j \in Ops("Parse") : j < i
    /\ (Ops("Bool") \cup Ops("BoolVar") # {}) =>
          [i \in 1..Len(events) |-> events[i].op]
              = <<"Parsed", "Bool", "BoolVar", "Parse", "*versionPtr">>
C8_Witness ==
    /\ calls = 1 /\ ret = <<ErrNil>>
    /\ [i \in 1..Len(events) |-> events[i].op]
           = <<"Parsed", "Bool", "BoolVar", "Parse", "*versionPtr">>
    /\ events[4].defined = {"version", "v"} /\ events[5].parsed

\* C10: a call that returns an error has registered nothing, has not called
\* flag.Parse(), has printed nothing and has not ended the process: the flag
\* set and the process are as before the call.
C10_ErrorLeavesState ==
    [][ (IsCall /\ ret' # <<>> /\ ret' # <<ErrNil>>) =>
            /\ parsed' = parsed /\ formal' = formal /\ regs' = regs
            /\ bools' = bools /\ stdout' = stdout
            /\ exited' = exited /\ exited' = <<>>
            /\ \A i \in 1..Len(events') : events'[i].op = "Parsed" ]_vars
\* a failed call on an invalid string, then a call with a valid one that
\* registers the flags and returns nil
C10_Witness ==
    /\ calls = 2 /\ ret = <<ErrNil>> /\ parsed
    /\ in1 = <<"1", ".", "2", ".", "3">>
    /\ regs = <<"version", "v">> /\ Defined(Proc) = {"version", "v"}

====
